---- MODULE Spec2Model ----
(***************************************************************************)
(* Model of src/main.cpp: a supervisor (main) that starts two workers,     *)
(* TaskWorker_Test (periodic) and TaskWorkerFsWatcher (watcher, with its   *)
(* nested stop_watching_task thread), and stops them through a             *)
(* std::stop_source and two Event gates (mutex + condition variable).      *)
(***************************************************************************)
EXTENDS Integers, Sequences, FiniteSets, TLC

\* ---------------------------------------------------------------- bounds
MaxArgs == 1
MaxEvents == 1

\* -------------------------------------------------------- program values
\* the argument of exit() on the default branch of ProcessOptions
ExitDefaultArg == -1
\* exitCode while the process has not ended (exit statuses are 0..255)
NoExit == 255 + 1

\* command-line words tried: the recognised ones and two unrecognised ones
Options == {"-h", "-?", "-v", "--help", "--version", "-x", "--bogus"}
Unrecognised == {"-x", "--bogus"}
HelpOrVersion == {"-h", "--help", "-v", "--version"}
\* characters getchar() may deliver ("EOF" is end of input)
Chars == {"\n", "q", "x", "EOF"}
\* what watcher.start() may throw
Faults == {"filesystem_error", "exception", "other"}
\* behaviours of the external watcher adapter
\*   stop     : start() returns once stop() has been called on it
\*   sentinel : start() returns only after it witnesses the sentinel file
\*   fault    : start() raises a fault
AdapterKinds == {"stop", "sentinel", "fault"}

ArgVectors == UNION {[1..n -> Options] : n \in 0..MaxArgs}

\* threads of control: main, TaskWorker_Test, TaskWorkerFsWatcher, its
\* stop_watching_task, and the change-event callback run inside start()
Threads == {"main", "test", "fsw", "sub", "cb"}

VARIABLES
    argv,            \* the options given on the command line
    pc,              \* each thread's position
    exitCode,        \* the process's exit status, NoExit while running
    stop,            \* stop_src's stop state (stop_requested())
    cbs,             \* registered stop callbacks not yet run: subset of {"fs","test"}
    fsMutex,         \* holder of task_event_stop_fswatcher.event_mutex
    testMutex,       \* holder of task_event_stop_test.event_mutex
    adapter,         \* behaviour of the watcher adapter in this run
    extEvents,       \* external filesystem changes still to happen
    pending,         \* change events queued for the watcher
    stopCalls,       \* [n |-> calls of watcher.stop(), early |-> one came before start()
                     \*  was entered, late |-> one came after start() had ended]
    sentinel,        \* [present |-> file exists, writes |-> count, writers |-> threads]
    startResult,     \* how watcher.start() ended: "none", "returned" or "faulted"
    subJoined,       \* stop_watching_task.join() has returned
    hist             \* observations: see HistInit

vars == <<argv, pc, exitCode, stop, cbs, fsMutex, testMutex, adapter, extEvents,
          pending, stopCalls, sentinel, startResult, subJoined, hist>>

\* hist records what the claims speak about; no action's guard reads it:
\*   tBeganTripped : the periodic worker's current wait was begun with stop tripped
\*   sBeganTripped : the sub-task's current wait was begun with stop tripped
\*   tWaitsAfterStop : waits the periodic worker began while stop was tripped
\*   escalatedUntripped : stop() or the sentinel write happened with stop untripped
\*   notifiedUntripped : a shutdown notify_all was sent with stop untripped
\*   lastChar : last character HandleGetChar read
\*   exitArg : the option ProcessOptions was handling when the process exited
\*   uncaught : a fault left TaskWorkerFsWatcher
\*   broadcast : the gates main's WakeUpRunningTasks has notified
\*   printed : what the last call of HandleGetChar wrote to the console
HistInit == [tBeganTripped |-> FALSE, sBeganTripped |-> FALSE, tWaitsAfterStop |-> 0,
             escalatedUntripped |-> FALSE, notifiedUntripped |-> FALSE,
             lastChar |-> "none", exitArg |-> "none", uncaught |-> FALSE,
             broadcast |-> {}, printed |-> "nothing"]

Init ==
    /\ argv \in ArgVectors
    /\ adapter \in AdapterKinds
    /\ extEvents = MaxEvents
    /\ pc = [t \in Threads |-> IF t = "main" THEN "options" ELSE "idle"]
    /\ exitCode = NoExit
    /\ stop = FALSE
    /\ cbs = {}
    /\ fsMutex = "none"
    /\ testMutex = "none"
    /\ pending = 0
    /\ stopCalls = [n |-> 0, early |-> FALSE, late |-> FALSE]
    /\ sentinel = [present |-> FALSE, writes |-> 0, writers |-> {}]
    /\ startResult = "none"
    /\ subJoined = FALSE
    /\ hist = HistInit

\* ------------------------------------------------------------ primitives
\* condition_variable::notify_all on a gate: a thread parked on it is woken and
\* has to take the mutex again; nobody parked, nothing happens
notify_all(p) == IF p = "parked" THEN "woken" ELSE p

\* a request_stop() that leaves the stop state as it was
request_stop_NotSet(s) == s

\* std::stop_source::request_stop(): the stop state after the call
request_stop(s) == TRUE

\* the status a parent sees for exit(code)
ExitStatus(code) == code % 256

\* the stop callbacks' bodies: an unlocked notify_all on the worker's own gate
StopCallback(c, p) ==
    IF c = "fs" THEN [p EXCEPT !["sub"] = notify_all(@)]
                ELSE [p EXCEPT !["test"] = notify_all(@)]

\* ------------------------------------------------------ ProcessOptions
\* getopt_long with short_options "h?v" and long_options help (val 0) and
\* version (val 'v'): the value returned for one command-line word
getopt_long(arg) ==
    CASE arg = "-h" -> "h"
      [] arg = "-?" -> "?"
      [] arg = "-v" -> "v"
      [] arg = "--help" -> "0"
      [] arg = "--version" -> "v"
      [] OTHER -> "?"

\* the switch of ProcessOptions for one value of var: the exit status when the
\* branch calls exit(), NoExit when it breaks out of the switch
OptionSwitch(var) ==
    CASE var = "0" -> NoExit
      [] var \in {"?", "h"} -> ExitStatus(0)
      [] var = "v" -> ExitStatus(0)
      [] OTHER -> ExitStatus(ExitDefaultArg)

\* ProcessOptions from word i on: [code |-> exit status or NoExit when the loop
\* ends at EOF, arg |-> the word whose branch called exit()]
RECURSIVE ProcessOptionsFrom(_, _)
ProcessOptionsFrom(a, i) ==
    IF i > Len(a) THEN [code |-> NoExit, arg |-> "none"]
    ELSE LET code == OptionSwitch(getopt_long(a[i]))
         IN  IF code = NoExit THEN ProcessOptionsFrom(a, i + 1)
             ELSE [code |-> code, arg |-> a[i]]

ProcessOptions(a) == ProcessOptionsFrom(a, 1)

\* ------------------------------------------------------------------ main
MainProcessOptions ==
    /\ pc["main"] = "options"
    /\ LET r == ProcessOptions(argv)
       IN  IF r.code = NoExit
           THEN /\ pc' = [pc EXCEPT !["main"] = "spawn_test"]
                /\ UNCHANGED <<exitCode, hist>>
           ELSE /\ pc' = [pc EXCEPT !["main"] = "exited"]
                /\ exitCode' = r.code
                /\ hist' = [hist EXCEPT !.exitArg = r.arg]
    /\ UNCHANGED <<argv, stop, cbs, fsMutex, testMutex, adapter, extEvents, pending,
                   stopCalls, sentinel, startResult, subJoined>>

\* tas_worker_test = std::thread(TaskWorker_Test, token)
MainSpawnTest ==
    /\ pc["main"] = "spawn_test"
    /\ pc' = [pc EXCEPT !["main"] = "spawn_fsw", !["test"] = "reg_cb"]
    /\ UNCHANGED <<argv, exitCode, stop, cbs, fsMutex, testMutex, adapter, extEvents,
                   pending, stopCalls, sentinel, startResult, subJoined, hist>>

\* task_worker_fswatcher = std::thread(TaskWorkerFsWatcher, token)
MainSpawnFsWatcher ==
    /\ pc["main"] = "spawn_fsw"
    /\ pc' = [pc EXCEPT !["main"] = "getchar", !["fsw"] = "reg_cb"]
    /\ UNCHANGED <<argv, exitCode, stop, cbs, fsMutex, testMutex, adapter, extEvents,
                   pending, stopCalls, sentinel, startResult, subJoined, hist>>

\* a HandleGetChar that takes every key but the newline as the quit command
HandleGetChar_AnyKeyQuits(c) == c # "\n"

\* HandleGetChar: true exactly for 'q'
HandleGetChar(c) == c = "q"

\* what HandleGetChar writes to the console for the character it read
HandleGetCharPrints(c) ==
    CASE c = "\n" -> "nothing"
      [] c = "q" -> "quit"
      [] OTHER -> "help"

\* one turn of main's loop around HandleGetChar
MainGetChar ==
    /\ pc["main"] = "getchar"
    /\ \E c \in Chars :
          /\ pc' = [pc EXCEPT !["main"] = IF HandleGetChar(c) THEN "request_stop"
                                                               ELSE "getchar"]
          /\ hist' = [hist EXCEPT !.lastChar = c, !.printed = HandleGetCharPrints(c)]
    /\ UNCHANGED <<argv, exitCode, stop, cbs, fsMutex, testMutex, adapter, extEvents,
                   pending, stopCalls, sentinel, startResult, subJoined>>

\* stop_src.request_stop(): the state is set, then the registered callbacks run
\* on this thread, one by one
MainRequestStop ==
    /\ pc["main"] = "request_stop"
    /\ stop' = request_stop(stop)
    /\ pc' = [pc EXCEPT !["main"] = "callbacks"]
    /\ UNCHANGED <<argv, exitCode, cbs, fsMutex, testMutex, adapter, extEvents, pending,
                   stopCalls, sentinel, startResult, subJoined, hist>>

MainRunStopCallback ==
    /\ pc["main"] = "callbacks"
    /\ \E c \in cbs :
          /\ cbs' = cbs \ {c}
          /\ pc' = StopCallback(c, pc)
    /\ hist' = [hist EXCEPT !.notifiedUntripped = @ \/ ~stop]
    /\ UNCHANGED <<argv, exitCode, stop, fsMutex, testMutex, adapter, extEvents, pending,
                   stopCalls, sentinel, startResult, subJoined>>

\* -------------------------------------------------- WakeUpRunningTasks
\* WakeUpRunningTasks that skips the watcher's gate whatever its argument
WakeUpEntry_TestGateOnly(all_tasks_wakeup) == "wake_test_lock"

\* where WakeUpRunningTasks(all_tasks_wakeup) starts
WakeUpEntry(all_tasks_wakeup) ==
    IF all_tasks_wakeup THEN "wake_fs_lock" ELSE "wake_test_lock"

\* where the caller goes on after WakeUpRunningTasks
WakeUpReturn(t) == IF t = "main" THEN "join_fsw" ELSE "idle"

\* a supervisor that clears the stop state once the callbacks have run
MainWakeUp_EdgeTriggered ==
    /\ pc["main"] = "callbacks"
    /\ cbs = {}
    /\ stop' = FALSE
    /\ pc' = [pc EXCEPT !["main"] = "wake_fs_lock"]
    /\ UNCHANGED <<argv, exitCode, cbs, fsMutex, testMutex, adapter, extEvents,
                   pending, stopCalls, sentinel, startResult, subJoined, hist>>

\* main: request_stop() has returned; WakeUpRunningTasks(true) is called
MainWakeUp ==
    /\ pc["main"] = "callbacks"
    /\ cbs = {}
    /\ pc' = [pc EXCEPT !["main"] = WakeUpEntry(TRUE)]
    /\ UNCHANGED <<argv, exitCode, stop, cbs, fsMutex, testMutex, adapter, extEvents,
                   pending, stopCalls, sentinel, startResult, subJoined, hist>>

\* WakeUpRunningTasks notifying the watcher's gate without taking its mutex
WakeFsLock_Unlocked(t) ==
    /\ pc[t] = "wake_fs_lock"
    /\ pc' = [pc EXCEPT ![t] = "wake_fs_notify"]
    /\ UNCHANGED <<argv, exitCode, stop, cbs, fsMutex, testMutex, adapter, extEvents,
                   pending, stopCalls, sentinel, startResult, subJoined, hist>>

\* std::unique_lock lck(task_event_stop_fswatcher.event_mutex)
WakeFsLock(t) ==
    /\ pc[t] = "wake_fs_lock"
    /\ fsMutex = "none"
    /\ fsMutex' = t
    /\ pc' = [pc EXCEPT ![t] = "wake_fs_notify"]
    /\ UNCHANGED <<argv, exitCode, stop, cbs, testMutex, adapter, extEvents, pending,
                   stopCalls, sentinel, startResult, subJoined, hist>>

\* a WakeUpRunningTasks with one scope: the first lock is kept while the second
\* is taken
WakeFsNotify_KeepLock(t) ==
    /\ pc[t] = "wake_fs_notify"
    /\ pc' = [pc EXCEPT ![t] = "wake_test_lock", !["sub"] = notify_all(@)]
    /\ hist' = [hist EXCEPT !.notifiedUntripped = @ \/ (t = "main" /\ ~stop),
                            !.broadcast = IF t = "main" THEN @ \cup {"fs"} ELSE @]
    /\ UNCHANGED <<argv, exitCode, stop, cbs, fsMutex, testMutex, adapter, extEvents,
                   pending, stopCalls, sentinel, startResult, subJoined>>

\* notify_all on the watcher's gate; the closing brace releases the lock
WakeFsNotify(t) ==
    /\ pc[t] = "wake_fs_notify"
    /\ fsMutex' = IF fsMutex = t THEN "none" ELSE fsMutex
    /\ pc' = [pc EXCEPT ![t] = "wake_test_lock", !["sub"] = notify_all(@)]
    /\ hist' = [hist EXCEPT !.notifiedUntripped = @ \/ (t = "main" /\ ~stop),
                            !.broadcast = IF t = "main" THEN @ \cup {"fs"} ELSE @]
    /\ UNCHANGED <<argv, exitCode, stop, cbs, testMutex, adapter, extEvents, pending,
                   stopCalls, sentinel, startResult, subJoined>>

\* std::unique_lock lck(task_event_stop_test.event_mutex)
WakeTestLock(t) ==
    /\ pc[t] = "wake_test_lock"
    /\ testMutex = "none"
    /\ testMutex' = t
    /\ pc' = [pc EXCEPT ![t] = "wake_test_notify"]
    /\ UNCHANGED <<argv, exitCode, stop, cbs, fsMutex, adapter, extEvents, pending,
                   stopCalls, sentinel, startResult, subJoined, hist>>

\* notify_all on the periodic worker's gate; the closing brace releases the lock
WakeTestNotify(t) ==
    /\ pc[t] = "wake_test_notify"
    /\ testMutex' = "none"
    /\ pc' = [pc EXCEPT ![t] = WakeUpReturn(t), !["test"] = notify_all(@)]
    /\ hist' = [hist EXCEPT !.notifiedUntripped = @ \/ (t = "main" /\ ~stop),
                            !.broadcast = IF t = "main" THEN @ \cup {"test"} ELSE @]
    /\ UNCHANGED <<argv, exitCode, stop, cbs, fsMutex, adapter, extEvents, pending,
                   stopCalls, sentinel, startResult, subJoined>>

\* task_worker_fswatcher.join()
MainJoinFsWatcher ==
    /\ pc["main"] = "join_fsw"
    /\ pc["fsw"] = "done"
    /\ pc' = [pc EXCEPT !["main"] = "join_test"]
    /\ UNCHANGED <<argv, exitCode, stop, cbs, fsMutex, testMutex, adapter, extEvents,
                   pending, stopCalls, sentinel, startResult, subJoined, hist>>

\* tas_worker_test.join()
MainJoinTest ==
    /\ pc["main"] = "join_test"
    /\ pc["test"] = "done"
    /\ pc' = [pc EXCEPT !["main"] = "return"]
    /\ UNCHANGED <<argv, exitCode, stop, cbs, fsMutex, testMutex, adapter, extEvents,
                   pending, stopCalls, sentinel, startResult, subJoined, hist>>

\* return EXIT_SUCCESS
MainReturn ==
    /\ pc["main"] = "return"
    /\ pc' = [pc EXCEPT !["main"] = "returned"]
    /\ exitCode' = ExitStatus(0)
    /\ UNCHANGED <<argv, stop, cbs, fsMutex, testMutex, adapter, extEvents, pending,
                   stopCalls, sentinel, startResult, subJoined, hist>>

\* ------------------------------------------------------ TaskWorker_Test
\* std::stop_callback's constructor: with stop already requested the callback
\* runs here, on the constructing thread; otherwise it is registered
TestRegisterStopCb ==
    /\ pc["test"] = "reg_cb"
    /\ IF stop
       THEN /\ pc' = [StopCallback("test", pc) EXCEPT !["test"] = "lock"]
            /\ cbs' = cbs
       ELSE /\ pc' = [pc EXCEPT !["test"] = "lock"]
            /\ cbs' = cbs \cup {"test"}
    /\ UNCHANGED <<argv, exitCode, stop, fsMutex, testMutex, adapter, extEvents,
                   pending, stopCalls, sentinel, startResult, subJoined, hist>>

\* std::unique_lock lck(task_event_stop_test.event_mutex)
TestLock ==
    /\ pc["test"] = "lock"
    /\ testMutex = "none"
    /\ testMutex' = "test"
    /\ pc' = [pc EXCEPT !["test"] = "wait"]
    /\ UNCHANGED <<argv, exitCode, stop, cbs, fsMutex, adapter, extEvents, pending,
                   stopCalls, sentinel, startResult, subJoined, hist>>

\* event_condition.wait_for(lck, sooner) begins: it has no predicate, so whatever
\* the stop state is the mutex is released and the thread parks
TestWaitFor ==
    /\ pc["test"] = "wait"
    /\ pc' = [pc EXCEPT !["test"] = "parked"]
    /\ testMutex' = "none"
    /\ hist' = [hist EXCEPT !.tBeganTripped = stop,
                            !.tWaitsAfterStop = IF stop /\ @ < 2 THEN @ + 1 ELSE @]
    /\ UNCHANGED <<argv, exitCode, stop, cbs, fsMutex, adapter, extEvents, pending,
                   stopCalls, sentinel, startResult, subJoined>>

\* the wait ends by its timeout or spuriously (a notify_all ends it too, from
\* the notifier's action)
TestWaitTimeout ==
    /\ pc["test"] = "parked"
    /\ pc' = [pc EXCEPT !["test"] = "woken"]
    /\ UNCHANGED <<argv, exitCode, stop, cbs, fsMutex, testMutex, adapter, extEvents,
                   pending, stopCalls, sentinel, startResult, subJoined, hist>>

\* wait_for takes the mutex again before it returns
TestReacquire ==
    /\ pc["test"] = "woken"
    /\ testMutex = "none"
    /\ testMutex' = "test"
    /\ pc' = [pc EXCEPT !["test"] = "check"]
    /\ UNCHANGED <<argv, exitCode, stop, cbs, fsMutex, adapter, extEvents, pending,
                   stopCalls, sentinel, startResult, subJoined, hist>>

\* a periodic worker that leaves its loop after the first wait
TestAfterWait_StopAlways(s) == "stopped"

\* a periodic worker that never leaves its loop
TestAfterWait_LoopAlways(s) == "lock"

\* where the periodic worker goes after its wait, by the stop state it reads
TestAfterWait(s) == IF s THEN "stopped" ELSE "lock"

\* if (token.stop_requested()) break; lck is released on both paths
TestCheckStop ==
    /\ pc["test"] = "check"
    /\ testMutex' = "none"
    /\ pc' = [pc EXCEPT !["test"] = TestAfterWait(stop)]
    /\ UNCHANGED <<argv, exitCode, stop, cbs, fsMutex, adapter, extEvents, pending,
                   stopCalls, sentinel, startResult, subJoined, hist>>

\* the terminal printf and the return, which destroys stop_cb
TestReturn ==
    /\ pc["test"] = "stopped"
    /\ pc' = [pc EXCEPT !["test"] = "done"]
    /\ cbs' = cbs \ {"test"}
    /\ UNCHANGED <<argv, exitCode, stop, fsMutex, testMutex, adapter, extEvents,
                   pending, stopCalls, sentinel, startResult, subJoined, hist>>

\* --------------------------------------------------- the watcher adapter
\* whether watcher.start() returns now
AdapterReturns ==
    CASE adapter = "stop" -> stopCalls.n > 0
      [] adapter = "sentinel" -> sentinel.present
      [] OTHER -> FALSE

\* a change happens in the watched directory
ExternalChange ==
    /\ extEvents > 0
    /\ pc["fsw"] = "in_start"
    /\ extEvents' = extEvents - 1
    /\ pending' = pending + 1
    /\ UNCHANGED <<argv, pc, exitCode, stop, cbs, fsMutex, testMutex, adapter,
                   stopCalls, sentinel, startResult, subJoined, hist>>

\* the watcher reports a change: the callback given to watcher.on() runs
\* WakeUpRunningTasks(true) inside start()
DeliverChange ==
    /\ pc["fsw"] = "in_start"
    /\ pc["cb"] = "idle"
    /\ pending > 0
    /\ pending' = pending - 1
    /\ pc' = [pc EXCEPT !["cb"] = WakeUpEntry(TRUE)]
    /\ UNCHANGED <<argv, exitCode, stop, cbs, fsMutex, testMutex, adapter, extEvents,
                   stopCalls, sentinel, startResult, subJoined, hist>>

\* -------------------------------------------------- TaskWorkerFsWatcher
\* fswatch("/tmp"), watcher.on(...) and the stop callback's constructor
FsWatcherRegisterStopCb ==
    /\ pc["fsw"] = "reg_cb"
    /\ IF stop
       THEN /\ pc' = [StopCallback("fs", pc) EXCEPT !["fsw"] = "spawn_sub"]
            /\ cbs' = cbs
       ELSE /\ pc' = [pc EXCEPT !["fsw"] = "spawn_sub"]
            /\ cbs' = cbs \cup {"fs"}
    /\ UNCHANGED <<argv, exitCode, stop, fsMutex, testMutex, adapter, extEvents,
                   pending, stopCalls, sentinel, startResult, subJoined, hist>>

\* std::thread stop_watching_task(...)
FsWatcherSpawnSub ==
    /\ pc["fsw"] = "spawn_sub"
    /\ pc' = [pc EXCEPT !["fsw"] = "start", !["sub"] = "lock"]
    /\ UNCHANGED <<argv, exitCode, stop, cbs, fsMutex, testMutex, adapter, extEvents,
                   pending, stopCalls, sentinel, startResult, subJoined, hist>>

\* watcher.start() is entered
FsWatcherStartEnter ==
    /\ pc["fsw"] = "start"
    /\ pc' = [pc EXCEPT !["fsw"] = "in_start"]
    /\ UNCHANGED <<argv, exitCode, stop, cbs, fsMutex, testMutex, adapter, extEvents,
                   pending, stopCalls, sentinel, startResult, subJoined, hist>>

\* watcher.start() returns
FsWatcherStartReturn ==
    /\ pc["fsw"] = "in_start"
    /\ pc["cb"] = "idle"
    /\ AdapterReturns
    /\ startResult' = "returned"
    /\ pc' = [pc EXCEPT !["fsw"] = "join_sub"]
    /\ UNCHANGED <<argv, exitCode, stop, cbs, fsMutex, testMutex, adapter, extEvents,
                   pending, stopCalls, sentinel, subJoined, hist>>

\* the handler of the try block that takes fault f, "none" if none does
CatchHandler(f) ==
    CASE f = "filesystem_error" -> "filesystem_error &"
      [] f = "exception" -> "exception &"
      [] OTHER -> "..."

\* watcher.start() throws f
FsWatcherStartFault ==
    /\ pc["fsw"] = "in_start"
    /\ pc["cb"] = "idle"
    /\ adapter = "fault"
    /\ \E f \in Faults :
          IF CatchHandler(f) = "none"
          THEN /\ pc' = [pc EXCEPT !["fsw"] = "terminate"]
               /\ hist' = [hist EXCEPT !.uncaught = TRUE]
               /\ startResult' = startResult
          ELSE /\ pc' = [pc EXCEPT !["fsw"] = "join_sub"]
               /\ startResult' = "faulted"
               /\ hist' = hist
    /\ UNCHANGED <<argv, exitCode, stop, cbs, fsMutex, testMutex, adapter, extEvents,
                   pending, stopCalls, sentinel, subJoined>>

\* a sub-task that is detached instead of joined
SubJoinable_Detached == TRUE

\* whether stop_watching_task.join() can return
SubJoinable == pc["sub"] = "done"

\* stop_watching_task.join()
FsWatcherJoinSub ==
    /\ pc["fsw"] = "join_sub"
    /\ SubJoinable
    /\ subJoined' = (pc["sub"] = "done")
    /\ pc' = [pc EXCEPT !["fsw"] = "stopped"]
    /\ UNCHANGED <<argv, exitCode, stop, cbs, fsMutex, testMutex, adapter, extEvents,
                   pending, stopCalls, sentinel, startResult, hist>>

\* the terminal printf and the return, which destroys stop_cb
FsWatcherReturn ==
    /\ pc["fsw"] = "stopped"
    /\ pc' = [pc EXCEPT !["fsw"] = "done"]
    /\ cbs' = cbs \ {"fs"}
    /\ UNCHANGED <<argv, exitCode, stop, fsMutex, testMutex, adapter, extEvents,
                   pending, stopCalls, sentinel, startResult, subJoined, hist>>

\* --------------------------------------------------- stop_watching_task
\* std::unique_lock lck(task_event_stop_fswatcher.event_mutex)
SubLock ==
    /\ pc["sub"] = "lock"
    /\ fsMutex = "none"
    /\ fsMutex' = "sub"
    /\ pc' = [pc EXCEPT !["sub"] = "wait"]
    /\ UNCHANGED <<argv, exitCode, stop, cbs, testMutex, adapter, extEvents, pending,
                   stopCalls, sentinel, startResult, subJoined, hist>>

\* a wait that returns on any wake, whatever the stop state
WaitPredicate_AnyWake(s) == TRUE

\* the predicate given to event_condition.wait: token.stop_requested()
WaitPredicate(s) == s

\* wait(lck, pred) is entered: pred is evaluated under the mutex first
SubWaitEnter ==
    /\ pc["sub"] = "wait"
    /\ pc' = [pc EXCEPT !["sub"] = IF WaitPredicate(stop) THEN "check" ELSE "block"]
    /\ hist' = [hist EXCEPT !.sBeganTripped = stop]
    /\ UNCHANGED <<argv, exitCode, stop, cbs, fsMutex, testMutex, adapter, extEvents,
                   pending, stopCalls, sentinel, startResult, subJoined>>

\* pred was false: the mutex is released and the thread parks
SubBlock ==
    /\ pc["sub"] = "block"
    /\ fsMutex' = "none"
    /\ pc' = [pc EXCEPT !["sub"] = "parked"]
    /\ UNCHANGED <<argv, exitCode, stop, cbs, testMutex, adapter, extEvents, pending,
                   stopCalls, sentinel, startResult, subJoined, hist>>

\* a spurious wake
SubSpuriousWake ==
    /\ pc["sub"] = "parked"
    /\ pc' = [pc EXCEPT !["sub"] = "woken"]
    /\ UNCHANGED <<argv, exitCode, stop, cbs, fsMutex, testMutex, adapter, extEvents,
                   pending, stopCalls, sentinel, startResult, subJoined, hist>>

\* the woken wait takes the mutex again
SubReacquire ==
    /\ pc["sub"] = "woken"
    /\ fsMutex = "none"
    /\ fsMutex' = "sub"
    /\ pc' = [pc EXCEPT !["sub"] = "recheck"]
    /\ UNCHANGED <<argv, exitCode, stop, cbs, testMutex, adapter, extEvents, pending,
                   stopCalls, sentinel, startResult, subJoined, hist>>

\* wait(lck, pred) evaluates pred again after a wake
SubRecheck ==
    /\ pc["sub"] = "recheck"
    /\ pc' = [pc EXCEPT !["sub"] = IF WaitPredicate(stop) THEN "check" ELSE "block"]
    /\ UNCHANGED <<argv, exitCode, stop, cbs, fsMutex, testMutex, adapter, extEvents,
                   pending, stopCalls, sentinel, startResult, subJoined, hist>>

\* an escalation that leaves out watcher.stop()
SubAfterWait_SentinelOnly(s) == IF s THEN "write_sentinel" ELSE "lock"

\* where the sub-task goes after its wait, by the stop state it reads
SubAfterWait(s) == IF s THEN "stop_watcher" ELSE "lock"

\* a sub-task whose lock outlives the loop: it is still held after the break
SubCheckStop_KeepLock ==
    /\ pc["sub"] = "check"
    /\ fsMutex' = IF stop THEN fsMutex ELSE "none"
    /\ pc' = [pc EXCEPT !["sub"] = SubAfterWait(stop)]
    /\ UNCHANGED <<argv, exitCode, stop, cbs, testMutex, adapter, extEvents, pending,
                   stopCalls, sentinel, startResult, subJoined, hist>>

\* if (token.stop_requested()) break; lck is released on both paths
SubCheckStop ==
    /\ pc["sub"] = "check"
    /\ fsMutex' = "none"
    /\ pc' = [pc EXCEPT !["sub"] = SubAfterWait(stop)]
    /\ UNCHANGED <<argv, exitCode, stop, cbs, testMutex, adapter, extEvents, pending,
                   stopCalls, sentinel, startResult, subJoined, hist>>

\* watcher.stop()
SubStopWatcher ==
    /\ pc["sub"] = "stop_watcher"
    /\ stopCalls' = [n |-> stopCalls.n + 1,
                     early |-> stopCalls.early \/ pc["fsw"] = "start",
                     late |-> stopCalls.late \/ startResult # "none"]
    /\ hist' = [hist EXCEPT !.escalatedUntripped = @ \/ ~stop]
    /\ pc' = [pc EXCEPT !["sub"] = "write_sentinel"]
    /\ UNCHANGED <<argv, exitCode, stop, cbs, fsMutex, testMutex, adapter, extEvents,
                   pending, sentinel, startResult, subJoined>>

\* an escalation whose open() fails: no file appears
WriteSentinel_NoFile(f, t) == f

\* what the escalation does to the sentinel file /tmp/~watcher_wakeup
WriteSentinel(f, t) ==
    [present |-> TRUE, writes |-> f.writes + 1, writers |-> f.writers \cup {t}]

\* tmpfile.open(..., trunc); tmpfile << "Wakeup\n"; tmpfile.close(): the file is
\* there and the watched directory has one more change
SubWriteSentinel ==
    /\ pc["sub"] = "write_sentinel"
    /\ sentinel' = WriteSentinel(sentinel, "sub")
    /\ pending' = pending + 1
    /\ hist' = [hist EXCEPT !.escalatedUntripped = @ \/ ~stop]
    /\ pc' = [pc EXCEPT !["sub"] = "done"]
    /\ UNCHANGED <<argv, exitCode, stop, cbs, fsMutex, testMutex, adapter, extEvents,
                   stopCalls, startResult, subJoined>>

\* ------------------------------------------------------------ the system
Next ==
    \/ MainProcessOptions
    \/ MainSpawnTest
    \/ MainSpawnFsWatcher
    \/ MainGetChar
    \/ MainRequestStop
    \/ MainRunStopCallback
    \/ MainWakeUp
    \/ \E t \in {"main", "cb"} : WakeFsLock(t)
    \/ \E t \in {"main", "cb"} : WakeFsNotify(t)
    \/ \E t \in {"main", "cb"} : WakeTestLock(t)
    \/ \E t \in {"main", "cb"} : WakeTestNotify(t)
    \/ MainJoinFsWatcher
    \/ MainJoinTest
    \/ MainReturn
    \/ TestRegisterStopCb
    \/ TestLock
    \/ TestWaitFor
    \/ TestWaitTimeout
    \/ TestReacquire
    \/ TestCheckStop
    \/ TestReturn
    \/ ExternalChange
    \/ DeliverChange
    \/ FsWatcherRegisterStopCb
    \/ FsWatcherSpawnSub
    \/ FsWatcherStartEnter
    \/ FsWatcherStartReturn
    \/ FsWatcherStartFault
    \/ FsWatcherJoinSub
    \/ FsWatcherReturn
    \/ SubLock
    \/ SubWaitEnter
    \/ SubBlock
    \/ SubSpuriousWake
    \/ SubReacquire
    \/ SubRecheck
    \/ SubCheckStop
    \/ SubStopWatcher
    \/ SubWriteSentinel

Spec == Init /\ [][Next]_vars

\* the steps of each thread that need nothing from outside the program
MainStep ==
    \/ MainProcessOptions \/ MainSpawnTest \/ MainSpawnFsWatcher \/ MainRequestStop
    \/ MainRunStopCallback \/ MainWakeUp
    \/ WakeFsLock("main") \/ WakeFsNotify("main")
    \/ WakeTestLock("main") \/ WakeTestNotify("main")
    \/ MainJoinFsWatcher \/ MainJoinTest \/ MainReturn

TestStep ==
    \/ TestRegisterStopCb \/ TestLock \/ TestWaitFor \/ TestWaitTimeout
    \/ TestReacquire \/ TestCheckStop \/ TestReturn

FsWatcherStep ==
    \/ FsWatcherRegisterStopCb \/ FsWatcherSpawnSub \/ FsWatcherStartEnter
    \/ FsWatcherStartReturn \/ FsWatcherStartFault \/ FsWatcherJoinSub
    \/ FsWatcherReturn

CallbackStep ==
    \/ WakeFsLock("cb") \/ WakeFsNotify("cb")
    \/ WakeTestLock("cb") \/ WakeTestNotify("cb")

SubStep ==
    \/ SubLock \/ SubWaitEnter \/ SubBlock \/ SubReacquire \/ SubRecheck
    \/ SubCheckStop \/ SubStopWatcher \/ SubWriteSentinel

\* Fair scheduling: every thread that can take a step eventually takes it, and a
\* timed wait eventually times out.  Nothing forces the user to type, the
\* directory to change, the watcher to report a change, or a wake to be spurious.
Fairness ==
    /\ WF_vars(MainStep)
    /\ WF_vars(TestStep)
    /\ WF_vars(FsWatcherStep)
    /\ WF_vars(CallbackStep)
    /\ WF_vars(SubStep)

FairSpec == Spec /\ Fairness

\* ================================================================ claims
AllStopped ==
    /\ pc["test"] = "done"
    /\ pc["fsw"] = "done"
    /\ pc["main"] = "returned"
    /\ exitCode = 0

\* no external change has happened in the run so far
NoChangeEvents == extEvents = MaxEvents

\* C1: under fair scheduling, with an adapter whose start() returns once stop()
\* has been called, the shutdown request is eventually followed by both workers
\* terminating, both joins returning and main returning 0; this holds with no
\* filesystem change event in the run, and with some as well.
C1_ShutdownCompletes ==
    (stop /\ adapter = "stop") ~> AllStopped

C1_Witness ==
    /\ AllStopped
    /\ adapter = "stop"
    /\ NoChangeEvents
    /\ stopCalls.n = 1

\* C2: with an adapter whose start() returns only after it witnesses the
\* sentinel file, the watcher worker eventually returns from start() and
\* terminates after the shutdown request, wherever the request falls in the
\* worker's progress.
C2_SentinelUnblocksStart ==
    (stop /\ adapter = "sentinel") ~> (startResult = "returned" /\ pc["fsw"] = "done")

C2_Witness ==
    /\ adapter = "sentinel"
    /\ startResult = "returned"
    /\ pc["fsw"] = "done"
    /\ ~stopCalls.early
    /\ sentinel.writes = 1

ShutdownNotifiesSpent ==
    /\ "test" \notin cbs
    /\ pc["main"] \in {"join_fsw", "join_test"}

\* C4: a wait of TaskWorker_Test begun with the stop state already tripped, the
\* shutdown's notify_all calls having been issued before it parked, does not
\* block for its timeout.
C4_NoTimeoutWaitAfterStop ==
    ~(pc["test"] = "parked" /\ hist.tBeganTripped /\ ShutdownNotifiesSpent)

\* C5: the sub-task never parks in a wait it began with the stop state tripped,
\* and under fair scheduling it never stays parked once the stop state is
\* tripped.
C5_NoLostWakeSub ==
    /\ [](pc["sub"] = "parked" => ~hist.sBeganTripped)
    /\ (pc["sub"] = "parked" /\ stop) ~> (pc["sub"] # "parked")

C5_Witness ==
    /\ stop
    /\ pc["sub"] = "parked"
    /\ pc["main"] = "wake_fs_lock"
    /\ "fs" \notin cbs

\* C6: a fault raised by start() never leaves TaskWorkerFsWatcher, and the
\* worker terminates as a result of the fault.
C6_FaultTerminatesWorker ==
    /\ [](~hist.uncaught)
    /\ (startResult = "faulted") ~> (pc["fsw"] = "done")

\* C7: once TaskWorkerFsWatcher has reported itself stopped, start() has returned
\* or faulted, and the sub-task has called stop(), written the sentinel,
\* finished and been joined.
C7_StoppedAfterStartAndSub ==
    pc["fsw"] \in {"stopped", "done"} =>
        /\ startResult \in {"returned", "faulted"}
        /\ pc["sub"] = "done"
        /\ stopCalls.n >= 1
        /\ sentinel.writes >= 1
        /\ subJoined

C7_Witness ==
    /\ pc["fsw"] = "done"
    /\ startResult = "returned"
    /\ subJoined

\* C8: an unrecognised option ends the process with a non-zero exit status
\* before any worker is started.
C8_InvalidOptionExitsNonZero ==
    (pc["main"] = "exited" /\ hist.exitArg \in Unrecognised) =>
        /\ exitCode # 0
        /\ pc["test"] = "idle"
        /\ pc["fsw"] = "idle"

\* C9: a command line that starts with -h, --help, -v or --version never gets
\* past ProcessOptions: no worker is started and the exit status is 0.
C9_HelpVersionExitsInOptions ==
    (Len(argv) >= 1 /\ argv[1] \in HelpOrVersion) =>
        /\ pc["main"] \in {"options", "exited"}
        /\ pc["main"] = "exited" => exitCode = 0
        /\ pc["test"] = "idle"
        /\ pc["fsw"] = "idle"

\* C10: the sub-task calls stop() and then writes the sentinel, each at most
\* once; nobody else writes the sentinel; both happen only with the stop state
\* tripped.
C10_EscalationOrder ==
    /\ stopCalls.n <= 1
    /\ sentinel.writes <= stopCalls.n
    /\ sentinel.writers \subseteq {"sub"}
    /\ sentinel.present <=> sentinel.writes > 0
    /\ ~hist.escalatedUntripped
    /\ stopCalls.n > 0 => stop

C10_Witness ==
    /\ stopCalls.n = 1
    /\ sentinel.writes = 1
    /\ sentinel.writers = {"sub"}
    /\ pc["sub"] = "done"

\* the sub-task is still inside event_condition.wait(lck, pred), or before it
SubInsideWait == pc["sub"] \in {"idle", "lock", "wait", "block", "parked", "woken", "recheck"}

\* C11: while the stop state is untripped, change events only wake gates: the
\* sub-task's wait does not return and it neither calls stop() nor writes the
\* sentinel, the periodic worker's check sends it back to wait again, and no
\* step of the change callback changes the stop state.
C11_ChangeEventsOnlyWake ==
    /\ [](~stop => (SubInsideWait /\ stopCalls.n = 0 /\ sentinel.writes = 0))
    /\ [][(pc["cb"] # pc'["cb"]) => (stop' = stop)]_vars
    /\ [][(~stop /\ pc["test"] = "check" /\ pc'["test"] # "check")
             => (pc'["test"] = "lock" /\ ~stop')]_vars

\* a change callback has notified the watcher's gate with the stop state
\* untripped and the sub-task has been woken by it
C11_Witness ==
    /\ ~stop
    /\ extEvents < MaxEvents
    /\ pc["cb"] = "wake_test_lock"
    /\ pc["sub"] = "woken"
    /\ stopCalls.n = 0

\* main is in or past its shutdown broadcast
MainInBroadcast ==
    pc["main"] \in {"wake_fs_lock", "wake_fs_notify", "wake_test_lock", "wake_test_notify"}

MainPastBroadcast == pc["main"] \in {"join_fsw", "join_test", "return", "returned"}

\* C12: every notify_all of main's shutdown broadcast and of the stop callbacks
\* is sent with the stop state already tripped, and the broadcast notifies both
\* gates, the watcher's first.
C12_TripBeforeBroadcast ==
    /\ ~hist.notifiedUntripped
    /\ (pc["main"] = "callbacks" \/ MainInBroadcast \/ MainPastBroadcast) => stop
    /\ hist.broadcast # {} => stop
    /\ "test" \in hist.broadcast => "fs" \in hist.broadcast
    /\ MainPastBroadcast => hist.broadcast = {"fs", "test"}

\* the broadcast is over, and on its way a stop callback's notify ran on main
C12_Witness ==
    /\ MainPastBroadcast
    /\ hist.broadcast = {"fs", "test"}
    /\ stop
    /\ cbs = {}
    /\ pc["test"] = "woken"

TestStopped == pc["test"] \in {"stopped", "done"}

\* C13: after its wait TaskWorker_Test always passes through the stop check; from
\* the check it goes to Stopped exactly when the stop state is tripped and back
\* to waiting otherwise; it is in Stopped only with the stop state tripped and
\* never leaves it.
C13_PeriodicStateMachine ==
    /\ [](TestStopped => stop)
    /\ [][(pc["test"] = "woken" /\ pc'["test"] # "woken") => pc'["test"] = "check"]_vars
    /\ [][(pc["test"] = "check" /\ pc'["test"] # "check")
             => pc'["test"] = (IF stop THEN "stopped" ELSE "lock")]_vars
    /\ [][(pc'["test"] = "stopped" /\ pc["test"] # "stopped") => pc["test"] = "check"]_vars
    /\ [][TestStopped => TestStopped']_vars

\* the worker has stopped out of a wait it had begun before the stop state was
\* tripped
C13_Witness ==
    /\ pc["test"] = "done"
    /\ stop
    /\ hist.tWaitsAfterStop = 0

\* C14: once the stop state is tripped TaskWorker_Test begins at most one more
\* wait, and under fair scheduling (the timeout of wait_for firing) it
\* terminates, the runs in which every notify_all found it not parked included.
C14_PeriodicBoundedResponse ==
    /\ [](hist.tWaitsAfterStop <= 1)
    /\ stop ~> (pc["test"] = "done")

\* the worker has terminated after one wait that it began with the stop state
\* already tripped
C14_Witness ==
    /\ pc["test"] = "done"
    /\ hist.tWaitsAfterStop = 1
    /\ hist.tBeganTripped
    /\ hist.broadcast = {"fs", "test"}

\* C15: the sub-task holds the watcher gate's mutex only from its lock to the
\* end of its stop check, never while it calls stop() or writes the sentinel;
\* the periodic worker holds its gate's mutex only between taking it and parking
\* and between waking and the end of its stop check; TaskWorkerFsWatcher itself
\* holds neither.
C15_GateLockDiscipline ==
    /\ fsMutex = "sub" <=> pc["sub"] \in {"wait", "block", "recheck", "check"}
    /\ testMutex = "test" <=> pc["test"] \in {"wait", "check"}
    /\ pc["sub"] \in {"stop_watcher", "write_sentinel", "done"} => fsMutex # "sub"
    /\ fsMutex # "fsw" /\ testMutex # "fsw"
    /\ fsMutex # "test" /\ testMutex # "sub"

\* main's broadcast holds the watcher gate's mutex while the sub-task is at
\* its escalation
C15_Witness ==
    /\ fsMutex = "main"
    /\ pc["sub"] \in {"stop_watcher", "write_sentinel"}

\* C16: the sub-task calls watcher.stop() only while the worker thread is inside
\* watcher.start(): never before start() has been entered and never after it
\* has returned or faulted.
C16_StopOnlyInsideStart ==
    /\ ~stopCalls.early
    /\ ~stopCalls.late
    /\ pc["sub"] = "stop_watcher" => (pc["fsw"] = "in_start" /\ startResult = "none")

WorkersRunning ==
    /\ pc["test"] \notin {"idle", "stopped", "done"}
    /\ pc["fsw"] \notin {"idle", "stopped", "done", "terminate"}

\* C17 as claimed: the stop state is tripped only after 'q' has been read, and
\* reading any other character leaves it untripped, keeps both workers running
\* and prints the help reminder.
C17_AnyOtherCharPrintsHelp ==
    /\ stop => hist.lastChar = "q"
    /\ hist.lastChar \notin {"none", "q"} =>
          (~stop /\ WorkersRunning /\ hist.printed = "help")

\* C17 as amended: the stop state is tripped only after 'q' has been read;
\* reading any other character leaves it untripped and keeps both workers
\* running; a newline prints nothing and every character other than 'q' and
\* the newline prints the help reminder.
C17_OtherCharsKeepRunning ==
    /\ stop => hist.lastChar = "q"
    /\ hist.lastChar \notin {"none", "q"} => (~stop /\ WorkersRunning)
    /\ hist.lastChar \notin {"none", "q", "\n"} => hist.printed = "help"
    /\ hist.lastChar = "\n" => hist.printed = "nothing"
    /\ hist.lastChar = "q" => hist.printed = "quit"

C17_Witness ==
    /\ hist.lastChar = "x"
    /\ hist.printed = "help"
    /\ ~stop
    /\ pc["test"] = "parked"
    /\ pc["fsw"] = "in_start"

\* C18: no worker is in its terminal state while the stop state is untripped;
\* TaskWorkerFsWatcher in particular, whose start() may have ended early by a
\* fault, stays in join() until the sub-task, which waits for the stop state,
\* has finished.
C18_NoTerminalWhileUntripped ==
    /\ pc["fsw"] \in {"stopped", "done"} => stop
    /\ pc["test"] \in {"stopped", "done"} => stop
    /\ (~stop /\ startResult # "none") => (pc["fsw"] = "join_sub" /\ ~subJoined)

\* the worker has returned after a start() that faulted
C18_Witness ==
    /\ pc["fsw"] = "done"
    /\ startResult = "faulted"
    /\ ~stopCalls.early
    /\ stopCalls.late
    /\ stop

\* the gate mutexes thread t holds
Holds(t) ==
    (IF fsMutex = t THEN {"fs"} ELSE {}) \cup (IF testMutex = t THEN {"test"} ELSE {})

\* thread t is waiting to take a gate mutex
WaitsForLock(t) ==
    \/ t \in {"main", "cb"} /\ pc[t] \in {"wake_fs_lock", "wake_test_lock"}
    \/ t \in {"sub", "test"} /\ pc[t] \in {"lock", "woken"}

\* C19: no thread holds both gate mutexes at once, each worker holds only its
\* own gate's mutex, and a thread that waits for a gate mutex holds none, so no
\* cycle of lock waits can form.
C19_NoNestedGateLocks ==
    /\ \A t \in Threads : Cardinality(Holds(t)) <= 1
    /\ \A t \in Threads : WaitsForLock(t) => Holds(t) = {}
    /\ fsMutex \in {"none", "main", "cb", "sub"}
    /\ testMutex \in {"none", "main", "cb", "test"}

\* both gate mutexes are held at once, by different threads
C19_Witness ==
    /\ fsMutex = "cb"
    /\ testMutex = "main"

====
